---- MODULE Spec2Model ----
(***************************************************************************)
(* Model of my_utils.py: state_to_binary_string, group_duplicates and      *)
(* create_summary_table.                                                   *)
(*                                                                         *)
(* Python values are represented as follows.                               *)
(*   - a str is the sequence of its characters (one-character strings);    *)
(*   - an element of a frequency vector is a record [kind, val]: an int    *)
(*     (hashable) or a list (not hashable);                                *)
(*   - an entry of freq_vectors is a record [kind, elems]: a sequence      *)
(*     (iterable) or a scalar (tuple() of it raises TypeError);            *)
(*   - a dict is the sequence of its items [key, members] in insertion     *)
(*     order, which is the order dict.values() iterates in;                *)
(*   - a call ends with an outcome: "return" or the name of the exception. *)
(***************************************************************************)
EXTENDS Integers, Sequences, FiniteSets

VARIABLES
    pc,             \* "ready" before the call under study, "done" after it
    state,          \* argument of state_to_binary_string
    encoded,        \* its returned str
    freq_vectors,   \* argument of group_duplicates
    gd_outcome,     \* outcome of group_duplicates
    dup_groups,     \* its returned list of groups
    init_states,    \* first argument of create_summary_table
    all_results,    \* second argument of create_summary_table
    max_colwidth,   \* pandas' process-wide display.max_colwidth option
    prior_colwidth, \* value of max_colwidth when the last call was entered
    cst_outcome,    \* outcome of create_summary_table
    df              \* its returned table: the sequence of its rows

vars == <<pc, state, encoded, freq_vectors, gd_outcome, dup_groups,
          init_states, all_results, max_colwidth, prior_colwidth,
          cst_outcome, df>>

-----------------------------------------------------------------------------
(* Bounds of the model *)

MaxStateLen == 4    \* longest state given to state_to_binary_string
MaxRules == 4       \* most entries in a freq_vectors collection
MaxVecLen == 1      \* longest well-formed frequency vector
MaxStates == 2      \* most entries in init_states
MaxResults == 2     \* most entries in all_results
MaxInitLen == 1     \* longest state inside init_states

(* Program constants *)

enumerate_start == 1    \* enumerate(freq_vectors, start=1)
colwidth_set == 50      \* pd.set_option("max_colwidth", 50)

-----------------------------------------------------------------------------
(* Generic helpers *)

SeqsUpTo(S, n) == UNION {[1..k -> S] : k \in 0..n}

Min(a, b) == IF a < b THEN a ELSE b

-----------------------------------------------------------------------------
(* str(int) and "".join *)

DigitChars == <<"0", "1", "2", "3", "4", "5", "6", "7", "8", "9">>

RECURSIVE str_nat(_)
str_nat(n) ==
    IF n < 10 THEN <<DigitChars[n + 1]>>
    ELSE str_nat(n \div 10) \o <<DigitChars[(n % 10) + 1]>>

\* str(n) for an int n: its decimal digits, with a leading "-" when negative
str(n) == IF n < 0 THEN <<"-">> \o str_nat(-n) ELSE str_nat(n)

\* map(str, state)
map_str(st) == [k \in 1..Len(st) |-> str(st[k])]

\* sep.join(parts)
RECURSIVE join(_, _)
join(sep, parts) ==
    IF parts = <<>> THEN <<>>
    ELSE IF Len(parts) = 1 THEN parts[1]
    ELSE parts[1] \o sep \o join(sep, Tail(parts))

state_to_binary_string_comma(st) == join(<<",">>, map_str(st))

\* "".join(map(str, state))
state_to_binary_string(st) == join(<<>>, map_str(st))

-----------------------------------------------------------------------------
(* Values given as frequency vectors *)

Int_(n) == [kind |-> "int", val |-> n]
List_ == [kind |-> "list", val |-> 0]

Vec(elems) == [kind |-> "seq", elems |-> elems]
Scalar == [kind |-> "scalar", elems |-> <<>>]

\* iter(vec) succeeds: vec is a sequence, not a scalar
is_iterable(vec) == vec.kind = "seq"

is_hashable_always(key) == TRUE

\* hash(key) succeeds: a tuple is hashable iff each of its elements is
is_hashable(key) == \A k \in 1..Len(key) : key[k].kind = "int"

tuple_len(vec) == <<Int_(Len(vec.elems))>>

\* tuple(vec): the elements of vec, in order
tuple(vec) == vec.elems

rule_num_zero_based(pos) == pos - 1

\* the number enumerate(freq_vectors, start=1) pairs with the pos-th entry
rule_num(pos) == enumerate_start + (pos - 1)

\* position of key among the dict's items, 0 when absent
key_index(groups, key) ==
    IF \E k \in 1..Len(groups) : groups[k].key = key
    THEN CHOOSE k \in 1..Len(groups) : groups[k].key = key
    ELSE 0

setdefault_append_front(groups, key, r) ==
    LET k == key_index(groups, key) IN
    IF k = 0 THEN <<[key |-> key, members |-> <<r>>]>> \o groups
    ELSE [groups EXCEPT ![k].members = Append(@, r)]

\* groups.setdefault(key, []).append(r): a new key is inserted last
setdefault_append(groups, key, r) ==
    LET k == key_index(groups, key) IN
    IF k = 0 THEN Append(groups, [key |-> key, members |-> <<r>>])
    ELSE [groups EXCEPT ![k].members = Append(@, r)]

\* the for loop of group_duplicates, from the pos-th entry on
RECURSIVE gd_loop(_, _, _)
gd_loop(vecs, pos, groups) ==
    IF pos > Len(vecs) THEN [outcome |-> "return", groups |-> groups]
    ELSE IF ~is_iterable(vecs[pos])
         THEN [outcome |-> "TypeError", groups |-> groups]
    ELSE IF ~is_hashable(tuple(vecs[pos]))
         THEN [outcome |-> "TypeError", groups |-> groups]
    ELSE gd_loop(vecs, pos + 1,
                 setdefault_append(groups, tuple(vecs[pos]), rule_num(pos)))

keep_group_nonempty(group) == Len(group) > 0

\* the filter of the returned comprehension
keep_group(group) == Len(group) > 1

\* groups.values()
dict_values(groups) == [k \in 1..Len(groups) |-> groups[k].members]

\* group_duplicates(freq_vectors): its outcome and, when it returns, its value
group_duplicates(vecs) ==
    LET r == gd_loop(vecs, 1, <<>>) IN
    IF r.outcome = "return"
    THEN [outcome |-> "return",
          value |-> SelectSeq(dict_values(r.groups), keep_group)]
    ELSE [outcome |-> r.outcome, value |-> <<>>]

-----------------------------------------------------------------------------
(* create_summary_table *)

summary_row_count_rules(init, vecs, dups) ==
    [Initial_State |-> state_to_binary_string(init),
     Group_Count |-> Len(vecs),
     Duplicate_Groups |-> dups]

\* the dict appended to stats for one initial state
summary_row(init, vecs, dups) ==
    [Initial_State |-> state_to_binary_string(init),
     Group_Count |-> Len(dups),
     Duplicate_Groups |-> dups]

stats_insert_front(stats, row) == <<row>> \o stats

\* stats.append(row)
stats_append(stats, row) == Append(stats, row)

loop_done_zip(states, results, idx) == idx > Len(states) \/ idx > Len(results)

\* the for loop over enumerate(init_states) is exhausted; idx counts from 1
\* here, so it stands for Python's idx + 1
loop_done(states, results, idx) == idx > Len(states)

\* the for loop of create_summary_table, from the idx-th initial state on
RECURSIVE cst_loop(_, _, _, _)
cst_loop(states, results, idx, stats) ==
    IF loop_done(states, results, idx)
    THEN [outcome |-> "return", stats |-> stats]
    ELSE IF idx > Len(results)
         THEN [outcome |-> "IndexError", stats |-> stats]
    ELSE LET vecs == results[idx].frequency_vectors
             g == group_duplicates(vecs)
         IN  IF g.outcome # "return"
             THEN [outcome |-> g.outcome, stats |-> stats]
             ELSE cst_loop(states, results, idx + 1,
                           stats_append(stats,
                                        summary_row(states[idx], vecs, g.value)))

set_option_skipped(colwidth) == colwidth

\* display.max_colwidth after pd.set_option("max_colwidth", 50)
set_option(colwidth) == colwidth_set

\* create_summary_table(init_states, all_results) entered with
\* display.max_colwidth = colwidth: its outcome, the rows of the returned
\* DataFrame and display.max_colwidth when the call ends
create_summary_table(states, results, colwidth) ==
    LET r == cst_loop(states, results, 1, <<>>) IN
    IF r.outcome = "return"
    THEN [outcome |-> "return", df |-> r.stats,
          max_colwidth |-> set_option(colwidth)]
    ELSE [outcome |-> r.outcome, df |-> <<>>, max_colwidth |-> colwidth]

-----------------------------------------------------------------------------
(* Inputs *)

\* entries of a state: binary digits and, unvalidated, other ints
StateDigits == {-1, 0, 1, 2, 10}

States == SeqsUpTo(StateDigits, MaxStateLen)

IsBinary(st) == \A k \in 1..Len(st) : st[k] \in {0, 1}

WellFormedVecs == {Vec(e) : e \in SeqsUpTo({Int_(0), Int_(1)}, MaxVecLen)}

\* entries no hashable key can be made of
MalformedVecs == {Scalar, Vec(<<List_>>)}

Collections == SeqsUpTo(WellFormedVecs \cup MalformedVecs, MaxRules)

\* every entry is a sequence of ints
WellFormed(vecs) ==
    \A i \in 1..Len(vecs) :
        /\ vecs[i].kind = "seq"
        /\ \A k \in 1..Len(vecs[i].elems) : vecs[i].elems[k].kind = "int"

\* frequency-vector collections given to create_summary_table
SummaryCollections ==
    LET a == Vec(<<Int_(0)>>)
        b == Vec(<<Int_(1)>>)
    IN  {<<>>, <<a, b>>, <<a, a>>, <<a, b, b, a>>, <<a, Scalar>>}

Results == SeqsUpTo({[frequency_vectors |-> c] : c \in SummaryCollections},
                    MaxResults)

InitStates == SeqsUpTo(SeqsUpTo({0, 1}, MaxInitLen), MaxStates)

\* display.max_colwidth is pandas' default, 50, unless the caller changed it
ColWidths == {50, 100}

-----------------------------------------------------------------------------
(* Specification of state_to_binary_string *)

InitEncode ==
    /\ pc = "ready"
    /\ state \in States
    /\ encoded = <<>>
    /\ freq_vectors = <<>> /\ gd_outcome = "none" /\ dup_groups = <<>>
    /\ init_states = <<>> /\ all_results = <<>>
    /\ max_colwidth = 50 /\ prior_colwidth = 50
    /\ cst_outcome = "none" /\ df = <<>>

CallStateToBinaryString ==
    /\ pc = "ready"
    /\ encoded' = state_to_binary_string(state)
    /\ pc' = "done"
    /\ UNCHANGED <<state, freq_vectors, gd_outcome, dup_groups, init_states,
                   all_results, max_colwidth, prior_colwidth, cst_outcome, df>>

NextEncode == CallStateToBinaryString

SpecEncode == InitEncode /\ [][NextEncode]_vars

-----------------------------------------------------------------------------
(* Specification of group_duplicates *)

InitGroup ==
    /\ pc = "ready"
    /\ state = <<>> /\ encoded = <<>>
    /\ freq_vectors \in Collections
    /\ gd_outcome = "none" /\ dup_groups = <<>>
    /\ init_states = <<>> /\ all_results = <<>>
    /\ max_colwidth = 50 /\ prior_colwidth = 50
    /\ cst_outcome = "none" /\ df = <<>>

CallGroupDuplicates ==
    /\ pc = "ready"
    /\ LET r == group_duplicates(freq_vectors) IN
        /\ gd_outcome' = r.outcome
        /\ dup_groups' = r.value
    /\ pc' = "done"
    /\ UNCHANGED <<state, encoded, freq_vectors, init_states, all_results,
                   max_colwidth, prior_colwidth, cst_outcome, df>>

NextGroup == CallGroupDuplicates

SpecGroup == InitGroup /\ [][NextGroup]_vars

-----------------------------------------------------------------------------
(* Specification of create_summary_table; the caller may call it again *)

InitSummary ==
    /\ pc = "ready"
    /\ state = <<>> /\ encoded = <<>>
    /\ freq_vectors = <<>> /\ gd_outcome = "none" /\ dup_groups = <<>>
    /\ init_states \in InitStates
    /\ all_results \in Results
    /\ max_colwidth \in ColWidths
    /\ prior_colwidth = max_colwidth
    /\ cst_outcome = "none" /\ df = <<>>

CallCreateSummaryTable ==
    /\ LET r == create_summary_table(init_states, all_results, max_colwidth) IN
        /\ cst_outcome' = r.outcome
        /\ df' = r.df
        /\ max_colwidth' = r.max_colwidth
    /\ prior_colwidth' = max_colwidth
    /\ pc' = "done"
    /\ UNCHANGED <<state, encoded, freq_vectors, gd_outcome, dup_groups,
                   init_states, all_results>>

NextSummary == CallCreateSummaryTable

SpecSummary == InitSummary /\ [][NextSummary]_vars

-----------------------------------------------------------------------------
(* Claims about group_duplicates, checked under SpecGroup *)

Returned == pc = "done" /\ gd_outcome = "return"

Rules == 1..Len(freq_vectors)

\* the places (group, position) of the returned list of groups
Places == {p \in (1..Len(dup_groups)) \X (1..(MaxRules + 2)) :
              p[2] <= Len(dup_groups[p[1]])}

At(p) == dup_groups[p[1]][p[2]]

InGroup(i) == \E p \in Places : At(p) = i

SameGroup(i, j) ==
    \E p, q \in Places : p[1] = q[1] /\ At(p) = i /\ At(q) = j

\* same length and the same value at each position
Identical(i, j) ==
    LET v == freq_vectors[i].elems
        w == freq_vectors[j].elems
    IN  /\ Len(v) = Len(w)
        /\ \A k \in 1..Len(v) : v[k].val = w[k].val

Smallest(group) ==
    CHOOSE m \in {group[k] : k \in 1..Len(group)} :
        \A k \in 1..Len(group) : m <= group[k]

\* C1: two distinct rule indices share a group iff their vectors are
\* element-wise identical, and an index is in some group iff some other
\* index has an identical vector
C1_GroupsAreIdenticalVectors ==
    Returned =>
        /\ \A i, j \in Rules :
               i # j => (SameGroup(i, j) <=> Identical(i, j))
        /\ \A i \in Rules :
               InGroup(i) <=> \E j \in Rules \ {i} : Identical(i, j)

C1_Witness ==
    /\ Returned
    /\ \E i, j, k \in Rules :
           /\ i # j /\ SameGroup(i, j)
           /\ ~InGroup(k)
           /\ Len(freq_vectors[k].elems) # Len(freq_vectors[i].elems)

\* C2: every rule index of the returned groups is in 1..len(V) and occurs
\* at one place only
C2_IndicesInRangeOnce ==
    Returned =>
        /\ \A p \in Places : At(p) \in Rules
        /\ \A p, q \in Places : At(p) = At(q) => p = q

C2_Witness ==
    /\ Returned
    /\ Len(dup_groups) = 2
    /\ Len(freq_vectors) = 4

\* C3: every returned group has at least 2 members, and the empty
\* collection gives the empty list
C3_GroupsHaveTwoMembers ==
    pc = "done" =>
        /\ \A g \in 1..Len(dup_groups) : Len(dup_groups[g]) >= 2
        /\ freq_vectors = <<>> => gd_outcome = "return" /\ dup_groups = <<>>

C3_Witness ==
    /\ Returned
    /\ \E g \in 1..Len(dup_groups) : Len(dup_groups[g]) = 2
    /\ \E i \in Rules : ~InGroup(i)

\* C4: groups appear in the order of their smallest rule index, and the
\* rule indices of each group are strictly ascending
C4_FirstSeenOrder ==
    Returned =>
        /\ \A g, h \in 1..Len(dup_groups) :
               g < h => Smallest(dup_groups[g]) < Smallest(dup_groups[h])
        /\ \A p, q \in Places :
               (p[1] = q[1] /\ p[2] < q[2]) => At(p) < At(q)

C4_Witness ==
    /\ Returned
    /\ dup_groups = <<(<<1, 3>>), (<<2, 4>>)>>

\* C8 as claimed: group_duplicates never ends in an error
C8_NeverRaises == pc = "done" => gd_outcome = "return"

\* C8 as amended: group_duplicates returns when every entry is a sequence
\* of hashable elements, ragged lengths included, and raises TypeError
\* when some entry is a scalar or holds an unhashable element
C8_RaisesIffMalformed ==
    pc = "done" =>
        gd_outcome = (IF WellFormed(freq_vectors) THEN "return" ELSE "TypeError")

C8_Witness ==
    /\ Returned
    /\ dup_groups # <<>>
    /\ \E i, j \in Rules :
           Len(freq_vectors[i].elems) # Len(freq_vectors[j].elems)

-----------------------------------------------------------------------------
(* Claim about state_to_binary_string, checked under SpecEncode *)

BinaryChar(d) == IF d = 0 THEN "0" ELSE "1"

\* C10: the string of a sequence of binary digits has the length of the
\* sequence and the digit's character at each position; the empty
\* sequence gives the empty string
C10_DigitwiseString ==
    (pc = "done" /\ IsBinary(state)) =>
        /\ Len(encoded) = Len(state)
        /\ \A k \in 1..Len(state) : encoded[k] = BinaryChar(state[k])

C10_Witness ==
    /\ pc = "done"
    /\ state = <<0, 1, 0, 1>>
    /\ encoded = <<"0", "1", "0", "1">>

-----------------------------------------------------------------------------
(* Claims about create_summary_table, checked under SpecSummary *)

WellFormedResults ==
    \A i \in 1..Len(all_results) : WellFormed(all_results[i].frequency_vectors)

\* C5: for inputs of equal length the table has one row per initial
\* state, in input order, labelled with the state's binary string and
\* holding the duplicate groups of the state's frequency vectors
C5_RowPerInitialState ==
    (pc = "done" /\ Len(init_states) = Len(all_results) /\ WellFormedResults) =>
        /\ cst_outcome = "return"
        /\ Len(df) = Len(init_states)
        /\ \A i \in 1..Len(df) :
               /\ df[i].Initial_State = state_to_binary_string(init_states[i])
               /\ df[i].Duplicate_Groups =
                      group_duplicates(all_results[i].frequency_vectors).value

C5_Witness ==
    /\ pc = "done" /\ cst_outcome = "return"
    /\ Len(init_states) = 2 /\ Len(all_results) = 2
    /\ df[1].Initial_State = <<"0">> /\ df[2].Initial_State = <<"1">>
    /\ df[1].Duplicate_Groups = <<>>
    /\ df[2].Duplicate_Groups = <<(<<1, 4>>), (<<2, 3>>)>>

\* C6: Group Count is the number of groups of the row, and 0 for a state
\* whose collection of frequency vectors is empty
C6_GroupCountIsNumberOfGroups ==
    pc = "done" =>
        \A i \in 1..Len(df) :
            /\ df[i].Group_Count = Len(df[i].Duplicate_Groups)
            /\ all_results[i].frequency_vectors = <<>> =>
                   df[i].Duplicate_Groups = <<>> /\ df[i].Group_Count = 0

C6_Witness ==
    /\ pc = "done" /\ Len(df) = 2
    /\ all_results[1].frequency_vectors = <<>> /\ df[1].Group_Count = 0
    /\ Len(all_results[2].frequency_vectors) = 4 /\ df[2].Group_Count = 2

\* C7 as claimed: with inputs of different lengths the call returns a
\* table of min(len(init_states), len(all_results)) rows
C7_TruncatesToShorter ==
    (pc = "done" /\ Len(init_states) # Len(all_results) /\ WellFormedResults) =>
        /\ cst_outcome = "return"
        /\ Len(df) = Min(Len(init_states), Len(all_results))

\* C7 as amended: with fewer initial states than results the call returns
\* a table of len(init_states) rows; with more initial states than results
\* it raises IndexError and returns no table
C7_TruncatesOrIndexError ==
    (pc = "done" /\ WellFormedResults) =>
        /\ Len(init_states) < Len(all_results) =>
               cst_outcome = "return" /\ Len(df) = Len(init_states)
        /\ Len(init_states) > Len(all_results) =>
               cst_outcome = "IndexError" /\ df = <<>>

C7_Witness ==
    /\ pc = "done" /\ WellFormedResults
    /\ Len(init_states) = 1 /\ Len(all_results) = 2
    /\ cst_outcome = "return" /\ Len(df) = 1

\* C9 as claimed: a call changes neither its inputs nor the process-wide
\* display configuration
C9_NoSharedStateChange ==
    [][/\ init_states' = init_states
       /\ all_results' = all_results
       /\ max_colwidth' = max_colwidth]_vars

\* C9 as amended: a call leaves its inputs unchanged; a call that returns
\* leaves display.max_colwidth at 50 whatever it was before, and a call
\* that raises leaves it unchanged
C9_OnlyColwidthChanges ==
    [][/\ init_states' = init_states
       /\ all_results' = all_results
       /\ max_colwidth' =
              (IF cst_outcome' = "return" THEN 50 ELSE max_colwidth)]_vars

C9_Witness ==
    /\ pc = "done" /\ cst_outcome = "return"
    /\ Len(df) = 2
    /\ prior_colwidth = 100
    /\ max_colwidth = 50

====
